---------------------------- MODULE Spec2Model ----------------------------
(*
  A model of imbalanced_datasets_experiments.ipynb.

  The specifications of the module:

    SpecJRD    JRD_sampling: the random start Y_, and the optimisation loop
               zero_grad / divergenceJR / backward / optimizer.step.
    Spec       train_imbalanced: the fold loop, the majority / minority
               separation, the nested validation over the sigma grid with its
               ValueError guard, the final subsampling and the AUC array.
               A row is its index in the fold's table; a row made by
               JRD_sampling is Syn.  What a library call returns (a table,
               an AUC, an exception) is an input.
    SpecRows   train_imbalanced on larger folds, every library call ending
               with a value.
    SpecLoad   the dataset list and the file names load_dataset builds.

  Real numbers are held on a grid whose unit is the learning rate 0.1 that
  every call uses: -2.0 is -20, 2.0 is 20.  The divergence and its gradient
  come from an external library (repitl) and the update from torch's Adam:
  the gradient is an input, one sign per coordinate, and the update moves
  a coordinate by one learning rate against that sign.
*)
EXTENDS Integers, Sequences, FiniteSets

VARIABLES
    \* ---- JRD_sampling
    jpc,        \* position in JRD_sampling
    X,          \* the dataset, a sequence of rows
    d,          \* X.shape[1]
    n_samples,  \* rows asked for
    n_iter,     \* iterations asked for
    Y_,         \* the uniform draw
    Y,          \* the tensor under optimisation
    grad,       \* Y.grad
    it,         \* the loop counter i of range(n_iter)
    ret,        \* the array returned
    X_in,       \* the contents of the caller's array when it was handed over
    djr_grad    \* the gradient of djr that backward() computed last

jvars == <<jpc, X, d, n_samples, n_iter, Y_, Y, grad, it, ret, X_in, djr_grad>>

VARIABLES
    \* ---- train_imbalanced
    tpc,        \* position in train_imbalanced
    fold,       \* the fold of range(1, 6)
    AUC,        \* np.zeros(5), one entry per fold
    Xtrain,     \* the training rows of the fold (row identifiers)
    Ytrain,     \* their labels
    maj_label,
    min_label,
    Xmaj,
    Xmin,
    Xtrain_,    \* line 273: the 75% part; line 305: the final training set
    Ytrain_,
    Xmaj_cv,
    Xmin_cv,
    AUC_cv,     \* np.zeros(sigmas.size)
    i,          \* the index of enumerate(sigmas)
    Xmaj_cv_,
    Xtrain_cv,
    Ytrain_cv,
    sigma,      \* line 301: the chosen bandwidth
    Xmaj_,
    result,     \* the array train_imbalanced returns
    \* ---- history, not program state
    auc_writes, \* how often each entry of AUC has been assigned
    outcome,    \* how the try block of the last candidate ended
    call_rows,  \* X.shape[0] of the last call of JRD_sampling
    call_n_samples, \* its n_samples
    call_sigma, \* its sigma
    jrd_calls,  \* calls of JRD_sampling made so far
    last_end    \* the step taken last and how its library calls ended

tvars == <<tpc, fold, AUC, Xtrain, Ytrain, maj_label, min_label, Xmaj, Xmin,
           Xtrain_, Ytrain_, Xmaj_cv, Xmin_cv, AUC_cv, i, Xmaj_cv_, Xtrain_cv,
           Ytrain_cv, sigma, Xmaj_, result, auc_writes, outcome, call_rows,
           call_n_samples, call_sigma, jrd_calls, last_end>>

VARIABLES
    \* ---- the experiment cell and load_dataset
    lpc,        \* position in the cell
    dataset,    \* index into datasets
    lfold,      \* the fold asked for
    ftrain,     \* the training file
    ftest,      \* the test file
    df,         \* the training table: the file read and its last column
    dftest,     \* the test table: the file read and its last column
    ld_Xtrain,  \* load_dataset's Xtrain (row numbers of df)
    ld_Ytrain,  \* load_dataset's Ytrain, shape (n,)
    ld_Xtest,   \* load_dataset's Xtest (row numbers of dftest)
    ld_Ytest    \* load_dataset's Ytest, shape (n, 1)

lvars == <<lpc, dataset, lfold, ftrain, ftest, df, dftest,
           ld_Xtrain, ld_Ytrain, ld_Xtest, ld_Ytest>>

vars == <<jvars, tvars, lvars>>

----------------------------------------------------------------------------
\* Bounds of the model

MaxN == 1           \* rows of X
MaxSamples == 2     \* n_samples
MaxIter == 2        \* n_iter
MaxCells == 2       \* n_samples * d

Dims == {1, 2}      \* columns of X

----------------------------------------------------------------------------
\* Grid arithmetic

LR == 1             \* lr = 0.1, the unit of the grid
LOW == -20 * LR     \* -2.0
HIGH == 20 * LR     \*  2.0

XValues == {-30 * LR, 0}     \* coordinates of the data: -3.0 and 0.0
GradSigns == {-1, 0, 1}      \* sign of one partial derivative of djr

Matrices(rows, cols, vals) == [1..rows -> [1..cols -> vals]]

Zeros(rows, cols) == [r \in 1..rows |-> [c \in 1..cols |-> 0]]

WellShaped(M, rows, cols) ==
    /\ Len(M) = rows
    /\ \A r \in 1..Len(M) : Len(M[r]) = cols

RowSet(M) == {M[r] : r \in 1..Len(M)}

ColMin(M, c) == CHOOSE v \in {M[r][c] : r \in 1..Len(M)} :
                    \A r \in 1..Len(M) : v <= M[r][c]

ColMax(M, c) == CHOOSE v \in {M[r][c] : r \in 1..Len(M)} :
                    \A r \in 1..Len(M) : v >= M[r][c]

----------------------------------------------------------------------------
\* JRD_sampling

\* np.random.uniform(-2.0, 2.0, ...) draws from [-2.0, 2.0): the two ends of
\* the range and its middle stand for the draws.
UniformDrawsWide == {LOW - 10 * LR, 0, HIGH + 10 * LR - 1}

UniformDraws == {LOW, 0, HIGH - 1}

\* the shape handed to np.random.uniform
DrawShapeOfX(n, ns, dd) == <<n, dd>>

DrawShape(n, ns, dd) == <<ns, dd>>

\* optimizer.step(): each coordinate moves one learning rate against the sign
\* of its gradient (Adam's first step; its moment estimates are left out); the
\* shape is the shape of Y.
Sign(v) == IF v > 0 THEN 1 ELSE IF v < 0 THEN -1 ELSE 0

AdamStep(Yt, g) ==
    [r \in 1..Len(Yt) |-> [c \in 1..Len(Yt[r]) |-> Yt[r][c] - LR * Sign(g[r][c])]]

\* the array handed back were the draw Y_ returned in place of the tensor
ReturnsDraw(Yt) == Y_

\* Y.detach().numpy(): the values of the tensor Y, in the dtype of X
DetachNumpy(Yt) == Yt

\* the tensors the optimiser would move were X registered with it as well
ParamsWithX == {"X", "Y"}

\* torch.optim.Adam([Y,], lr=lr): the tensors the optimiser moves
Params == {"Y"}

\* the gradient left in Y.grad were it not reset
GradKept(g) == g

\* optimizer.zero_grad(): Y.grad is reset, in the shape it has
ZeroedGrad(g) == [r \in 1..Len(g) |-> [c \in 1..Len(g[r]) |-> 0]]

JIdle ==
    /\ jpc = "idle"
    /\ X_in = <<>>
    /\ djr_grad = <<>>
    /\ X = <<>>
    /\ d = 0
    /\ n_samples = 0
    /\ n_iter = 0
    /\ Y_ = <<>>
    /\ Y = <<>>
    /\ grad = <<>>
    /\ it = 0
    /\ ret = <<>>

\* lines 79-88: n, d, the draw of Y_, the tensors and the optimiser
JRD_call ==
    /\ jpc = "idle"
    /\ \E dd \in Dims, n \in 0..MaxN, ns \in 0..MaxSamples, ni \in 0..MaxIter :
         /\ ns * dd <= MaxCells
         /\ \E Xin \in Matrices(n, dd, XValues) :
            \E y0 \in Matrices(DrawShape(n, ns, dd)[1], DrawShape(n, ns, dd)[2],
                               UniformDraws) :
              /\ X' = Xin
              /\ X_in' = Xin
              /\ djr_grad' = Zeros(Len(y0), dd)
              /\ d' = dd
              /\ n_samples' = ns
              /\ n_iter' = ni
              /\ Y_' = y0
              /\ Y' = y0
              /\ grad' = Zeros(Len(y0), dd)
              /\ it' = 0
              /\ jpc' = IF ni > 0 THEN "zero_grad" ELSE "return"
    /\ UNCHANGED <<ret, tvars, lvars>>

\* optimizer.zero_grad()
ZeroGrad ==
    /\ jpc = "zero_grad"
    /\ grad' = ZeroedGrad(grad)
    /\ jpc' = "divergence"
    /\ UNCHANGED <<X, d, n_samples, n_iter, Y_, Y, it, ret, X_in, djr_grad,
                   tvars, lvars>>

\* djr = div.divergenceJR(X, Y, ...): the forward pass changes no tensor
DivergenceJR ==
    /\ jpc = "divergence"
    /\ jpc' = "backward"
    /\ UNCHANGED <<X, d, n_samples, n_iter, Y_, Y, grad, it, ret, X_in,
                   djr_grad, tvars, lvars>>

\* djr.backward(): the gradient of djr at the current Y is added to Y.grad
Backward ==
    /\ jpc = "backward"
    /\ \E g \in Matrices(Len(Y), d, GradSigns) :
         /\ djr_grad' = g
         /\ grad' = [r \in 1..Len(Y) |-> [c \in 1..d |-> grad[r][c] + g[r][c]]]
    /\ jpc' = "step"
    /\ UNCHANGED <<X, d, n_samples, n_iter, Y_, Y, it, ret, X_in, tvars, lvars>>

\* optimizer.step(), then the next turn of range(n_iter)
OptimizerStep ==
    /\ jpc = "step"
    /\ Y' = IF "Y" \in Params THEN AdamStep(Y, grad) ELSE Y
    /\ X' = IF "X" \in Params
            THEN AdamStep(X, [r \in 1..Len(X) |-> [c \in 1..d |-> 1]])
            ELSE X
    /\ it' = it + 1
    /\ jpc' = IF it + 1 < n_iter THEN "zero_grad" ELSE "return"
    /\ UNCHANGED <<d, n_samples, n_iter, Y_, grad, ret, X_in, djr_grad,
                   tvars, lvars>>

\* return Y.detach().numpy()
JRD_return ==
    /\ jpc = "return"
    /\ ret' = DetachNumpy(Y)
    /\ jpc' = "done"
    /\ UNCHANGED <<X, d, n_samples, n_iter, Y_, Y, grad, it, X_in, djr_grad,
                   tvars, lvars>>

JNext ==
    \/ JRD_call
    \/ ZeroGrad
    \/ DivergenceJR
    \/ Backward
    \/ OptimizerStep
    \/ JRD_return

----------------------------------------------------------------------------
\* train_imbalanced

MaxRows == 3        \* training rows of a fold under Spec
MaxSplitRows == 5   \* training rows of a fold under SpecRows

n_folds == 5        \* AUC = np.zeros(5), range(1, 6)
n_sigmas == 10

Labels == {0, 1}    \* ' negative' and ' positive'
Syn == 0            \* the identifier of a row that JRD_sampling made
AucValues == {2}    \* the test AUC of a fold, in halves: 1.0
CvAucValues == {1}  \* the validation AUC of a candidate, in halves: 0.5

\* the label vectors load_dataset can return
Tables(maxrows) == UNION {[1..n -> Labels] : n \in 1..maxrows}

\* how a step that calls a library can end: with a value, with an exception
\* nobody catches, or (the try block of line 296) with a ValueError
Ok(values) == {<<"ok", v>> : v \in values}
Ends(values) == Ok(values) \cup {<<"raise", 0>>}
CvEnds(values) == Ends(values) \cup {<<"ValueError", 0>>}

\* the only handler of the function were it wrapped around every step
PropagatesUnlessValueError(step, kind) == kind = "raise"

\* which ends leave train_imbalanced: every exception but a ValueError of the
\* try block of lines 296-299, the only handler of the function
Propagates(step, kind) ==
    kind = "raise" \/ (kind = "ValueError" /\ step # "candidate")

SeqMax(s) == CHOOSE v \in {s[k] : k \in 1..Len(s)} : \A k \in 1..Len(s) : v >= s[k]
SeqMin(s) == CHOOSE v \in {s[k] : k \in 1..Len(s)} : \A k \in 1..Len(s) : v <= s[k]

Count(s, v) == Cardinality({k \in 1..Len(s) : s[k] = v})

\* np.bincount: entry l counts label l, for l = 0 .. max(y); held at l + 1
Bincount(y) == [k \in 1..(SeqMax(y) + 1) |-> Count(y, k - 1)]

\* ndarray.argmax / np.argmax: the 0-based index of the first maximum
ArgMaxLast(s) == (CHOOSE k \in 1..Len(s) :
                    /\ s[k] = SeqMax(s)
                    /\ \A j \in 1..Len(s) : s[j] = SeqMax(s) => j <= k) - 1

ArgMax(s) == (CHOOSE k \in 1..Len(s) :
                /\ s[k] = SeqMax(s)
                /\ \A j \in 1..Len(s) : s[j] = SeqMax(s) => j >= k) - 1

\* ndarray.argmin: the 0-based index of the first minimum
ArgMin(s) == (CHOOSE k \in 1..Len(s) :
                /\ s[k] = SeqMin(s)
                /\ \A j \in 1..Len(s) : s[j] = SeqMin(s) => j >= k) - 1

\* Xs[Ys == label, :]
RECURSIVE MaskRows(_, _, _)
MaskRows(Xs, Ys, label) ==
    IF Xs = <<>> THEN <<>>
    ELSE (IF Head(Ys) = label THEN <<Head(Xs)>> ELSE <<>>)
         \o MaskRows(Tail(Xs), Tail(Ys), label)

\* the rows of Xs at the positions in keep
RECURSIVE TakeRows(_, _, _)
TakeRows(Xs, keep, k) ==
    IF k > Len(Xs) THEN <<>>
    ELSE (IF k \in keep THEN <<Xs[k]>> ELSE <<>>) \o TakeRows(Xs, keep, k + 1)

\* label * np.ones(n)
Ones(label, n) == [k \in 1..n |-> label]

\* train_test_split(test_size = 0.25): n_test = ceil(0.25 n), the rest trains
NTest(n) == (n + 3) \div 4
NTrain(n) == n - NTest(n)

\* the grid with the two ends of np.linspace exchanged
SigmasReversed == [k \in 1..n_sigmas |-> 9 + 299 * (n_sigmas - k)]

\* np.linspace(0.01 * sigma0, 3 * sigma0, n_sigmas), in units of sigma0 / 900
Sigmas == [k \in 1..n_sigmas |-> 9 + 299 * (k - 1)]

\* what JRD_sampling hands back for n_samples = ns: ns rows, none a row of X
JRD_rows(Xrows, ns) == [k \in 1..ns |-> Syn]

\* the n_samples argument of the nested call (line 281) and the final (303)
NSamplesOfMaj(Xmajority, Xminority) == Len(Xmajority)

NSamples(Xmajority, Xminority) == Len(Xminority)

\* AUC[(fold - 1)]: the 0-based index fold - 1, held at position fold
AucIndexNext(f) == (f % n_folds) + 1

AucIndex(f) == (f - 1) + 1

\* the except branch leaves AUC_cv alone
GuardClearsAll(cv, idx, end) ==
    IF end[1] = "ok" THEN [cv EXCEPT ![idx] = end[2]]
    ELSE [k \in 1..Len(cv) |-> 0]

\* lines 296-299: AUC_cv[i] = roc_auc_score(...) unless ValueError is raised
Guarded(cv, idx, end) ==
    IF end[1] = "ok" THEN [cv EXCEPT ![idx] = end[2]] ELSE cv

TIdle ==
    /\ tpc = "idle"
    /\ fold = 0
    /\ AUC = <<>>
    /\ Xtrain = <<>>
    /\ Ytrain = <<>>
    /\ maj_label = 0
    /\ min_label = 0
    /\ Xmaj = <<>>
    /\ Xmin = <<>>
    /\ Xtrain_ = <<>>
    /\ Ytrain_ = <<>>
    /\ Xmaj_cv = <<>>
    /\ Xmin_cv = <<>>
    /\ AUC_cv = <<>>
    /\ i = 0
    /\ Xmaj_cv_ = <<>>
    /\ Xtrain_cv = <<>>
    /\ Ytrain_cv = <<>>
    /\ sigma = 0
    /\ Xmaj_ = <<>>
    /\ result = <<>>
    /\ auc_writes = <<>>
    /\ outcome = "none"
    /\ call_rows = 0
    /\ call_n_samples = 0
    /\ call_sigma = 0
    /\ jrd_calls = 0
    /\ last_end = <<"none", "none">>

\* the values a fold leaves behind are all assigned again before the next
\* fold reads them; the model clears them when the fold ends
FoldLocalsCleared ==
    /\ Xtrain' = <<>>
    /\ Ytrain' = <<>>
    /\ maj_label' = 0
    /\ min_label' = 0
    /\ Xmaj' = <<>>
    /\ Xmin' = <<>>
    /\ Xtrain_' = <<>>
    /\ Ytrain_' = <<>>
    /\ Xmaj_cv' = <<>>
    /\ Xmin_cv' = <<>>
    /\ AUC_cv' = <<>>
    /\ i' = 0
    /\ Xmaj_cv_' = <<>>
    /\ Xtrain_cv' = <<>>
    /\ Ytrain_cv' = <<>>
    /\ sigma' = 0
    /\ Xmaj_' = <<>>
    /\ outcome' = "none"
    /\ call_rows' = 0
    /\ call_n_samples' = 0
    /\ call_sigma' = 0

\* lines 254-258: AUC = np.zeros(5), and the first turn of the fold loop
TrainCall ==
    /\ tpc = "idle"
    /\ AUC' = [k \in 1..n_folds |-> 0]
    /\ auc_writes' = [k \in 1..n_folds |-> 0]
    /\ fold' = 1
    /\ tpc' = "load"
    /\ UNCHANGED <<Xtrain, Ytrain, maj_label, min_label, Xmaj, Xmin, Xtrain_,
                   Ytrain_, Xmaj_cv, Xmin_cv, AUC_cv, i, Xmaj_cv_, Xtrain_cv,
                   Ytrain_cv, sigma, Xmaj_, result, outcome, call_rows,
                   call_n_samples, call_sigma, jrd_calls, last_end>>
    /\ UNCHANGED <<jvars, lvars>>

\* an exception nobody catches leaves train_imbalanced: the frame and its
\* locals are gone and nothing is returned
Raised ==
    /\ tpc' = "raised"
    /\ fold' = 0
    /\ AUC' = <<>>
    /\ auc_writes' = <<>>
    /\ FoldLocalsCleared
    /\ UNCHANGED <<result, jrd_calls>>

\* lines 260-270: load_dataset, the normalisation, the two labels and classes
LoadFold(ends) ==
    /\ tpc = "load"
    /\ \E end \in ends :
         /\ last_end' = <<"load", end[1]>>
         /\ IF Propagates("load", end[1]) THEN Raised
            ELSE
              /\ Xtrain' = [k \in 1..Len(end[2]) |-> k]
              /\ Ytrain' = end[2]
              /\ maj_label' = ArgMax(Bincount(end[2]))
              /\ min_label' = ArgMin(Bincount(end[2]))
              /\ Xmaj' = MaskRows([k \in 1..Len(end[2]) |-> k], end[2],
                                  ArgMax(Bincount(end[2])))
              /\ Xmin' = MaskRows([k \in 1..Len(end[2]) |-> k], end[2],
                                  ArgMin(Bincount(end[2])))
              /\ tpc' = "split"
              /\ UNCHANGED <<fold, AUC, Xtrain_, Ytrain_, Xmaj_cv, Xmin_cv,
                             AUC_cv, i, Xmaj_cv_, Xtrain_cv, Ytrain_cv, sigma,
                             Xmaj_, result, auc_writes, outcome, call_rows,
                             call_n_samples, call_sigma, jrd_calls>>
    /\ UNCHANGED <<jvars, lvars>>

\* lines 273-279: the 75% / 25% split (which rows go where is the shuffle's
\* choice; the rows keep their order), the two classes of the 75% part, the
\* sigma grid and AUC_cv.  train_test_split raises when no row is left to train.
SplitFold ==
    /\ tpc = "split"
    /\ last_end' = <<"split", IF NTrain(Len(Xtrain)) = 0 THEN "ValueError"
                                                          ELSE "ok">>
    /\ IF NTrain(Len(Xtrain)) = 0 THEN Raised
       ELSE \E test \in {S \in SUBSET (1..Len(Xtrain)) :
                            Cardinality(S) = NTest(Len(Xtrain))} :
            LET keep == (1..Len(Xtrain)) \ test
                Xt == TakeRows(Xtrain, keep, 1)
                Yt == TakeRows(Ytrain, keep, 1)
            IN  /\ Xtrain_' = Xt
                /\ Ytrain_' = Yt
                /\ Xmaj_cv' = MaskRows(Xt, Yt, maj_label)
                /\ Xmin_cv' = MaskRows(Xt, Yt, min_label)
                /\ AUC_cv' = [k \in 1..n_sigmas |-> 0]
                /\ i' = 0
                /\ tpc' = "candidate"
                /\ UNCHANGED <<fold, AUC, Xtrain, Ytrain, maj_label, min_label,
                               Xmaj, Xmin, Xmaj_cv_, Xtrain_cv, Ytrain_cv,
                               sigma, Xmaj_, result, auc_writes, outcome,
                               call_rows, call_n_samples, call_sigma,
                               jrd_calls>>
    /\ UNCHANGED <<jvars, lvars>>

\* lines 280-299: one turn of the loop over the sigma grid
Candidate(ends) ==
    /\ tpc = "candidate"
    /\ \E end \in ends :
         /\ last_end' = <<"candidate", end[1]>>
         /\ IF Propagates("candidate", end[1]) THEN Raised
            ELSE
              LET ns == NSamples(Xmaj_cv, Xmin_cv)
                  sub == JRD_rows(Xmaj_cv, ns)
              IN  /\ call_rows' = Len(Xmaj_cv)
                  /\ call_n_samples' = ns
                  /\ call_sigma' = Sigmas[i + 1]
                  /\ jrd_calls' = jrd_calls + 1
                  /\ Xmaj_cv_' = sub
                  /\ Xtrain_cv' = sub \o Xmin_cv
                  /\ Ytrain_cv' = Ones(maj_label, Len(sub))
                                  \o Ones(min_label, Len(Xmin_cv))
                  /\ AUC_cv' = Guarded(AUC_cv, i + 1, end)
                  /\ outcome' = end[1]
                  /\ i' = i + 1
                  /\ tpc' = IF i + 1 < n_sigmas THEN "candidate" ELSE "choose"
                  /\ UNCHANGED <<fold, AUC, Xtrain, Ytrain, maj_label,
                                 min_label, Xmaj, Xmin, Xtrain_, Ytrain_,
                                 Xmaj_cv, Xmin_cv, sigma, Xmaj_, result,
                                 auc_writes>>
    /\ UNCHANGED <<jvars, lvars>>

\* lines 301-306: the best sigma, the final subsampling, the training set.
\* Nothing after line 301 reads what the nested validation left behind
\* (Xmaj_cv, Xmin_cv, AUC_cv, i, Xmaj_cv_, Xtrain_cv, Ytrain_cv): the model
\* clears it here.
ChooseSigma(ends) ==
    /\ tpc = "choose"
    /\ \E end \in ends :
         /\ last_end' = <<"choose", end[1]>>
         /\ IF Propagates("choose", end[1]) THEN Raised
            ELSE
              LET best == Sigmas[ArgMax(AUC_cv) + 1]
                  ns == NSamples(Xmaj, Xmin)
                  sub == JRD_rows(Xmaj, ns)
              IN  /\ sigma' = best
                  /\ call_rows' = Len(Xmaj)
                  /\ call_n_samples' = ns
                  /\ call_sigma' = best
                  /\ jrd_calls' = jrd_calls + 1
                  /\ Xmaj_' = sub
                  /\ Xtrain_' = sub \o Xmin
                  /\ Ytrain_' = Ones(maj_label, Len(sub))
                                \o Ones(min_label, Len(Xmin))
                  /\ Xmaj_cv' = <<>>
                  /\ Xmin_cv' = <<>>
                  /\ AUC_cv' = <<>>
                  /\ i' = 0
                  /\ Xmaj_cv_' = <<>>
                  /\ Xtrain_cv' = <<>>
                  /\ Ytrain_cv' = <<>>
                  /\ outcome' = "none"
                  /\ tpc' = "fit"
                  /\ UNCHANGED <<fold, AUC, Xtrain, Ytrain, maj_label,
                                 min_label, Xmaj, Xmin, result, auc_writes>>
    /\ UNCHANGED <<jvars, lvars>>

\* lines 308-323: the grid search, the SVM, the test AUC of the fold, and the
\* next turn of the fold loop
FitFold(ends) ==
    /\ tpc = "fit"
    /\ \E end \in ends :
         /\ last_end' = <<"fit", end[1]>>
         /\ IF Propagates("fit", end[1]) THEN Raised
            ELSE
              /\ AUC' = [AUC EXCEPT ![AucIndex(fold)] = end[2]]
              /\ auc_writes' = [auc_writes EXCEPT ![AucIndex(fold)] = @ + 1]
              /\ fold' = fold + 1
              /\ tpc' = IF fold < n_folds THEN "load" ELSE "return"
              /\ FoldLocalsCleared
              /\ UNCHANGED <<result, jrd_calls>>
    /\ UNCHANGED <<jvars, lvars>>

\* line 325: return AUC
TrainReturn ==
    /\ tpc = "return"
    /\ result' = AUC
    /\ tpc' = "returned"
    /\ UNCHANGED <<fold, AUC, Xtrain, Ytrain, maj_label, min_label, Xmaj, Xmin,
                   Xtrain_, Ytrain_, Xmaj_cv, Xmin_cv, AUC_cv, i, Xmaj_cv_,
                   Xtrain_cv, Ytrain_cv, sigma, Xmaj_, auc_writes, outcome,
                   call_rows, call_n_samples, call_sigma, jrd_calls, last_end>>
    /\ UNCHANGED <<jvars, lvars>>

TNext ==
    \/ TrainCall
    \/ LoadFold(Ends(Tables(MaxRows)))
    \/ SplitFold
    \/ Candidate(CvEnds(CvAucValues))
    \/ ChooseSigma(Ends({0}))
    \/ FitFold(CvEnds(AucValues))
    \/ TrainReturn

\* the same program on larger folds, every library call ending with a value
RowsNext ==
    \/ TrainCall
    \/ LoadFold(Ok(Tables(MaxSplitRows)))
    \/ SplitFold
    \/ Candidate(Ok(CvAucValues))
    \/ ChooseSigma(Ok({0}))
    \/ FitFold(Ok(CvAucValues))
    \/ TrainReturn

----------------------------------------------------------------------------
\* The experiment cell and load_dataset

\* the list with 'new-thyroid1' written twice
datasetsRepeated == <<"abalone9-18", "abalone19", "ecoli-0_vs_1",
    "ecoli-0-1-3-7_vs_2-6", "ecoli1", "ecoli2", "ecoli3", "ecoli4", "glass0",
    "glass-0-1-2-3_vs_4-5-6", "glass-0-1-6_vs_2", "glass-0-1-6_vs_5", "glass1",
    "glass2", "glass4", "glass5", "glass6", "haberman", "iris0",
    "new-thyroid1", "new-thyroid1", "page-blocks0", "page-blocks-1-3_vs_4",
    "pima", "segment0", "shuttle-c0-vs-c4", "shuttle-c2-vs-c4", "vehicle0",
    "vehicle1", "vehicle2", "vehicle3", "vowel0", "wisconsin",
    "yeast-0-5-6-7-9_vs_4", "yeast1", "yeast-1_vs_7", "yeast-1-2-8-9_vs_7",
    "yeast-1-4-5-8_vs_7", "yeast-2_vs_4", "yeast-2_vs_8", "yeast3", "yeast4",
    "yeast5", "yeast6">>

\* lines 184-227
datasets == <<"abalone9-18", "abalone19", "ecoli-0_vs_1",
    "ecoli-0-1-3-7_vs_2-6", "ecoli1", "ecoli2", "ecoli3", "ecoli4", "glass0",
    "glass-0-1-2-3_vs_4-5-6", "glass-0-1-6_vs_2", "glass-0-1-6_vs_5", "glass1",
    "glass2", "glass4", "glass5", "glass6", "haberman", "iris0",
    "new-thyroid1", "newthyroid2", "page-blocks0", "page-blocks-1-3_vs_4",
    "pima", "segment0", "shuttle-c0-vs-c4", "shuttle-c2-vs-c4", "vehicle0",
    "vehicle1", "vehicle2", "vehicle3", "vowel0", "wisconsin",
    "yeast-0-5-6-7-9_vs_4", "yeast1", "yeast-1_vs_7", "yeast-1-2-8-9_vs_7",
    "yeast-1-4-5-8_vs_7", "yeast-2_vs_4", "yeast-2_vs_8", "yeast3", "yeast4",
    "yeast5", "yeast6">>

MaxLoadRows == 2    \* rows of a table read by load_dataset

\* what the last column of a KEEL table can hold: the two class names as the
\* files separated by ', ' give them, and a name without the leading blank
ClassStrings == {" positive", " negative", "positive"}

LastColumns(maxrows) == UNION {[1..n -> ClassStrings] : n \in 1..maxrows}

NoTable == [file |-> <<>>, last |-> <<>>]

\* the two assignments with the labels exchanged
RelabelSwapped(v) == IF v = " positive" THEN 0 ELSE 1

\* lines 175-176, 180-181: Y[Y == ' positive'] = 1; Y[Y == ' negative'] = 0
Relabel(v) == IF v = " positive" THEN 1 ELSE 0

\* .astype(int) of line 182 raises ValueError on a string that was not replaced
AsTypeIntRaises(col) ==
    \E k \in 1..Len(col) : col[k] \notin {" positive", " negative"}

LIdle ==
    /\ lpc = "idle"
    /\ dataset = 0
    /\ lfold = 0
    /\ ftrain = <<>>
    /\ ftest = <<>>
    /\ df = NoTable
    /\ dftest = NoTable
    /\ ld_Xtrain = <<>>
    /\ ld_Ytrain = <<>>
    /\ ld_Xtest = <<>>
    /\ ld_Ytest = <<>>

\* dataset = datasets[k]: the cell runs for any of the datasets in the list,
\* and train_imbalanced asks for each fold of range(1, 6)
PickDataset ==
    /\ lpc = "idle"
    /\ \E k \in 1..Len(datasets), f \in 1..n_folds :
         /\ dataset' = k
         /\ lfold' = f
    /\ lpc' = "load"
    /\ UNCHANGED <<ftrain, ftest, df, dftest,
                   ld_Xtrain, ld_Ytrain, ld_Xtest, ld_Ytest>>
    /\ UNCHANGED <<jvars, tvars>>

\* lines 168-169: the two file names
FileNames ==
    /\ lpc = "load"
    /\ ftrain' = <<"./Imbalanced_data/", datasets[dataset], "-5-", lfold, "tra.dat">>
    /\ ftest' = <<"./Imbalanced_data/", datasets[dataset], "-5-", lfold, "tst.dat">>
    /\ lpc' = "read"
    /\ UNCHANGED <<dataset, lfold, df, dftest,
                   ld_Xtrain, ld_Ytrain, ld_Xtest, ld_Ytest>>
    /\ UNCHANGED <<jvars, tvars>>

\* lines 170-171: pd.read_table of the two files; a file that cannot be read
\* raises and load_dataset is left
ReadTables ==
    /\ lpc = "read"
    /\ \E end \in {"ok", "raise"} :
         IF end = "raise"
         THEN /\ lpc' = "raised"
              /\ UNCHANGED <<df, dftest>>
         ELSE /\ \E tra \in LastColumns(MaxLoadRows),
                    tst \in LastColumns(MaxLoadRows) :
                   /\ df' = [file |-> ftrain, last |-> tra]
                   /\ dftest' = [file |-> ftest, last |-> tst]
              /\ lpc' = "relabel"
    /\ UNCHANGED <<dataset, lfold, ftrain, ftest,
                   ld_Xtrain, ld_Ytrain, ld_Xtest, ld_Ytest>>
    /\ UNCHANGED <<jvars, tvars>>

\* lines 172-182: the feature matrices, the relabelling of the last column of
\* each table (iloc[:, -1] for Ytrain, iloc[:, -1:] for Ytest) and the return
\* with .astype(int)
LoadReturn ==
    /\ lpc = "relabel"
    /\ IF AsTypeIntRaises(df.last) \/ AsTypeIntRaises(dftest.last)
       THEN /\ lpc' = "raised"
            /\ UNCHANGED <<ld_Xtrain, ld_Ytrain, ld_Xtest, ld_Ytest>>
       ELSE /\ ld_Xtrain' = [k \in 1..Len(df.last) |-> k]
            /\ ld_Ytrain' = [k \in 1..Len(df.last) |-> Relabel(df.last[k])]
            /\ ld_Xtest' = [k \in 1..Len(dftest.last) |-> k]
            /\ ld_Ytest' = [k \in 1..Len(dftest.last) |->
                                <<Relabel(dftest.last[k])>>]
            /\ lpc' = "returned"
    /\ UNCHANGED <<dataset, lfold, ftrain, ftest, df, dftest>>
    /\ UNCHANGED <<jvars, tvars>>

LNext ==
    \/ PickDataset
    \/ FileNames
    \/ ReadTables
    \/ LoadReturn

----------------------------------------------------------------------------
\* Specifications

Init == JIdle /\ TIdle /\ LIdle

Spec == Init /\ [][TNext]_vars

SpecRows == Init /\ [][RowsNext]_vars

SpecJRD == Init /\ [][JNext]_vars

SpecLoad == Init /\ [][LNext]_vars


----------------------------------------------------------------------------
\* Properties of JRD_sampling (checked under SpecJRD)

\* C1: the array JRD_sampling returns has exactly n_samples rows and exactly
\* d = X.shape[1] columns; Y has that shape from its initialisation on and no
\* step of the loop adds, removes or reshapes rows.
C1_ShapeFixed ==
    jpc # "idle" =>
        /\ \A r \in 1..Len(X) : Len(X[r]) = d
        /\ WellShaped(Y_, n_samples, d)
        /\ WellShaped(Y, n_samples, d)
        /\ (jpc = "done" => WellShaped(ret, n_samples, d))

\* a call that asked for more rows than X has, ran its iterations and returned
C1_Witness ==
    /\ jpc = "done"
    /\ it = n_iter
    /\ n_iter > 1
    /\ n_samples > Len(X)
    /\ Len(ret) = 2

C10_DrawInDataRange ==
    (jpc # "idle" /\ Len(X) > 0) =>
        \A r \in 1..Len(Y_) : \A c \in 1..d :
            ColMin(X, c) <= Y_[r][c] /\ Y_[r][c] <= ColMax(X, c)

\* C10 as amended: every coordinate of every initial point lies in the fixed
\* range [-2.0, 2.0), whatever the range of X.
C10_DrawInFixedRange ==
    jpc # "idle" =>
        \A r \in 1..Len(Y_) : \A c \in 1..d :
            LOW <= Y_[r][c] /\ Y_[r][c] < HIGH

\* an initial point below the smallest value of X in some dimension
C10_Witness ==
    /\ jpc # "idle"
    /\ Len(X) > 0
    /\ \E r \in 1..Len(Y_) : \E c \in 1..d : Y_[r][c] < ColMin(X, c)

----------------------------------------------------------------------------
\* Properties of train_imbalanced (checked under Spec and SpecRows)

BalancedSet(Xs, Ys, Xminority) ==
    LET m == Len(Xminority)
    IN  /\ Len(Xs) = 2 * m
        /\ Len(Ys) = Len(Xs)
        /\ \A k \in 1..m : Xs[k] = Syn /\ Ys[k] = maj_label
        /\ \A k \in 1..m : Xs[m + k] = Xminority[k] /\ Ys[m + k] = min_label
        /\ Count(Ys, maj_label) = Count(Ys, min_label)

C4_AucPerFold ==
    /\ tpc \notin {"idle", "raised"} =>
           /\ Len(AUC) = n_folds
           /\ \A k \in 1..n_folds :
                /\ auc_writes[k] = (IF k < fold THEN 1 ELSE 0)
                /\ (k < fold => AUC[k] \in AucValues)
                /\ (k >= fold => AUC[k] = 0)
    /\ tpc = "returned" =>
           /\ result = AUC
           /\ Len(result) = 5
           /\ fold = n_folds + 1

\* train_imbalanced has returned the five test AUCs
C4_Witness ==
    /\ tpc = "returned"
    /\ result = <<2, 2, 2, 2, 2>>
    /\ \A k \in 1..5 : auc_writes[k] = 1

\* C6: a ValueError in the try block of candidate i is swallowed: AUC_cv[i]
\* keeps its 0, no entry of AUC_cv changes, and the loop goes on to candidate
\* i + 1 (or, after the last one, to the choice of sigma) in the same fold.
C6_GuardSwallows ==
    [][(tpc = "candidate" /\ outcome' = "ValueError" /\ tpc' # "raised") =>
          /\ AUC_cv' = AUC_cv
          /\ AUC_cv'[i + 1] = 0
          /\ i' = i + 1
          /\ tpc' = (IF i + 1 < n_sigmas THEN "candidate" ELSE "choose")
          /\ fold' = fold
          /\ AUC' = AUC]_vars

\* a ValueError at a later candidate, after an earlier one got its AUC, with
\* the loop still running
C6_Witness ==
    /\ tpc = "candidate"
    /\ outcome = "ValueError"
    /\ i > 1
    /\ AUC_cv[i] = 0
    /\ \E k \in 1..(i - 1) : AUC_cv[k] # 0

\* C7: the sigma of the final subsampling is the candidate of the grid at
\* the lowest index whose AUC_cv is maximal; the first candidate if every
\* AUC_cv is 0.
C7_BestSigma ==
    [][(tpc = "choose" /\ tpc' = "fit") =>
          /\ \E k \in 1..n_sigmas :
                /\ sigma' = Sigmas[k]
                /\ AUC_cv[k] = SeqMax(AUC_cv)
                /\ \A j \in 1..(k - 1) : AUC_cv[j] < AUC_cv[k]
          /\ ((\A j \in 1..n_sigmas : AUC_cv[j] = 0) => sigma' = Sigmas[1])
          /\ call_sigma' = sigma']_vars

\* the third candidate was chosen: the first two had failed
C7_Witness ==
    /\ tpc = "fit"
    /\ sigma = Sigmas[3]

\* C8: every call of JRD_sampling asks for no more rows than X has.
C8_SmallerPointSet ==
    call_n_samples <= call_rows

----------------------------------------------------------------------------
\* Properties of the dataset list (checked under SpecLoad)

\* no name stands twice in the list
NamesDistinct ==
    \A a \in 1..Len(datasets) : \A b \in 1..Len(datasets) :
        a # b => datasets[a] # datasets[b]

\* C9: the list holds exactly 44 names, pairwise distinct, and the cell runs
\* on one of them.
C9_FortyFourDistinct ==
    /\ Len(datasets) = 44
    /\ NamesDistinct
    /\ (lpc # "idle" => dataset \in 1..44)

\* the cell runs on the last name of the list
C9_Witness ==
    /\ lpc = "read"
    /\ dataset = 44
    /\ datasets[dataset] = "yeast6"

----------------------------------------------------------------------------
\* Further properties of JRD_sampling (checked under SpecJRD)

C14_InputUnchanged == jpc # "idle" => X = X_in

\* a call on a non-empty X has returned after the optimiser moved Y
C14_Witness ==
    /\ jpc = "done"
    /\ Len(X) > 0
    /\ it > 0
    /\ ret # Y_
    /\ X = X_in

----------------------------------------------------------------------------
\* Further properties of load_dataset (checked under SpecLoad)

\* C12: what load_dataset returns comes from the training and the test file
\* of the dataset and fold asked for; every label is 0 or 1, 1 exactly on the
\* rows whose last column is ' positive' and 0 exactly on those where it is
\* ' negative'; Ytrain and Ytest have one label per row of Xtrain and Xtest.
C12_LabelsOfFold ==
    lpc = "returned" =>
        /\ df.file = <<"./Imbalanced_data/", datasets[dataset], "-5-", lfold,
                       "tra.dat">>
        /\ dftest.file = <<"./Imbalanced_data/", datasets[dataset], "-5-",
                           lfold, "tst.dat">>
        /\ Len(ld_Ytrain) = Len(ld_Xtrain)
        /\ Len(ld_Ytrain) = Len(df.last)
        /\ \A k \in 1..Len(ld_Ytrain) :
               /\ ld_Ytrain[k] \in {0, 1}
               /\ ld_Ytrain[k] = 1 <=> df.last[k] = " positive"
               /\ ld_Ytrain[k] = 0 <=> df.last[k] = " negative"
        /\ Len(ld_Ytest) = Len(ld_Xtest)
        /\ Len(ld_Ytest) = Len(dftest.last)
        /\ \A k \in 1..Len(ld_Ytest) :
               /\ Len(ld_Ytest[k]) = 1
               /\ ld_Ytest[k][1] \in {0, 1}
               /\ ld_Ytest[k][1] = 1 <=> dftest.last[k] = " positive"
               /\ ld_Ytest[k][1] = 0 <=> dftest.last[k] = " negative"

\* a fold whose two tables hold a row of each class has been returned
C12_Witness ==
    /\ lpc = "returned"
    /\ df.last = <<" negative", " positive">>
    /\ dftest.last = <<" positive", " negative">>
    /\ ld_Ytrain = <<0, 1>>
    /\ ld_Ytest = << <<1>>, <<0>> >>

----------------------------------------------------------------------------
\* Further properties of train_imbalanced (checked under Spec)

\* C11: an exception of any step other than a ValueError of the try block of
\* a candidate leaves train_imbalanced: nothing is returned and no further
\* fold is processed; every other end lets the function go on.
C11_OnlyOneGuard ==
    [][/\ tpc \in {"load", "split", "candidate", "choose", "fit"} =>
            IF \/ last_end'[2] = "raise"
               \/ (last_end'[2] = "ValueError" /\ tpc # "candidate")
            THEN tpc' = "raised" /\ result' = <<>> /\ AUC' = <<>>
            ELSE tpc' # "raised"
       /\ tpc = "raised" => (tpc' = "raised" /\ result' = <<>>)]_vars

\* the final roc_auc_score of the second fold raised ValueError
C11_Witness ==
    /\ tpc = "raised"
    /\ last_end = <<"fit", "ValueError">>
    /\ jrd_calls = 22
    /\ result = <<>>

\* C15: the two labels differ, maj_label is the class of larger count, every
\* training row is in exactly one of Xmaj and Xmin, and neither is empty.
C15_TwoClasses ==
    tpc = "split" =>
        /\ maj_label # min_label
        /\ Count(Ytrain, maj_label) >= Count(Ytrain, min_label)
        /\ \A k \in 1..Len(Xtrain) :
               (Xtrain[k] \in RowSet(Xmaj)) # (Xtrain[k] \in RowSet(Xmin))
        /\ Xmaj # <<>>
        /\ Xmin # <<>>

\* C16: a fold evaluates the ten candidates once each, in increasing order
\* from 0.01 * sigma0 (9) to 3 * sigma0 (2700), and subsamples the whole
\* majority class only after the tenth: 11 calls of JRD_sampling per fold, 55
\* when train_imbalanced returns.
C16_ElevenCalls ==
    /\ tpc \in {"load", "split"} => jrd_calls = 11 * (fold - 1)
    /\ tpc \in {"candidate", "choose"} =>
           /\ jrd_calls = 11 * (fold - 1) + i
           /\ i <= 10
           /\ (i > 0 => call_sigma = 9 + 299 * (i - 1))
    /\ tpc = "choose" => (i = 10 /\ call_sigma = 2700)
    /\ tpc = "fit" => jrd_calls = 11 * fold
    /\ tpc \in {"return", "returned"} => jrd_calls = 55

\* train_imbalanced has returned after its 55 calls
C16_Witness ==
    /\ tpc = "returned"
    /\ jrd_calls = 55
    /\ Len(result) = 5

=============================================================================
